---- MODULE Spec2Model ----
(***************************************************************************)
(* Model of sudoku.c: checkPuzzle, its solver tasks (solve_rows_worker,    *)
(* solve_cols_worker, solve_subgrid_worker over solve_row, solve_col,      *)
(* solve_subgrid) and its validation tasks (check_rows, check_cols,        *)
(* check_subgrid over is_row_valid, is_col_valid, is_subgrid_valid).       *)
(*                                                                         *)
(* Granularity.  The grid is shared by the solver tasks without a lock, so *)
(* every access of a solver task to a grid cell that another task may      *)
(* write in the same pass is a step of its own: a read of such a cell, and *)
(* every write.  A write targets a cell that its task read as 0 during the *)
(* same pass and stores a value in 1..psize, so a cell that was non-zero   *)
(* when the pass was launched is written by nobody during the pass; reads  *)
(* of those cells, and the task's local computation, are folded into the   *)
(* step of the preceding shared access (operator Run).  WritesHitPassZeros *)
(* states the fact this folding rests on, and is checked.                  *)
(* pthread_create / pthread_join loops are one step each: a created task   *)
(* may run or wait at once, so creating them one by one adds no behaviour. *)
(***************************************************************************)
EXTENDS Integers, Sequences, FiniteSets, TLC

\* ------------------------------------------------------------------ sizes

\* psize: the puzzle size read by readSudokuPuzzle and passed to checkPuzzle.
psize == 4

\* Bounds of the model.
MaxEdits == 1
MaxCalls == 2

\* (int) sqrt(psize): the truncated square root.
subgrid_size == CHOOSE s \in 0..psize : s * s <= psize /\ (s + 1) * (s + 1) > psize

num_threads == psize + 2

Idx == 1..psize
Cells == Idx \X Idx
Tasks == 0..(num_threads - 1)

\* ------------------------------------------------------------------ inputs

\* The completed valid 4x4 puzzle.
SolvedGrid ==
  << <<1, 2, 3, 4>>,
     <<3, 4, 1, 2>>,
     <<2, 1, 4, 3>>,
     <<4, 3, 2, 1>> >>

\* Complete grids that break one kind of unit only: a Latin square whose
\* subgrids are not permutations, SolvedGrid with two cells of column 1 swapped
\* inside subgrid 0 (rows 1 and 2 repeat a value), and SolvedGrid with two
\* cells of row 1 swapped inside subgrid 0 (columns 1 and 2 repeat a value).
LatinGrid ==
  << <<1, 2, 3, 4>>,
     <<2, 3, 4, 1>>,
     <<3, 4, 1, 2>>,
     <<4, 1, 2, 3>> >>

RowsBadGrid ==
  << <<3, 2, 3, 4>>,
     <<1, 4, 1, 2>>,
     <<2, 1, 4, 3>>,
     <<4, 3, 2, 1>> >>

ColsBadGrid ==
  << <<2, 1, 3, 4>>,
     <<3, 4, 1, 2>>,
     <<2, 1, 4, 3>>,
     <<4, 3, 2, 1>> >>

\* SolvedGrid with four holes at the corners of a rectangle: every unit has
\* either no zero or two.
HoledGrid ==
  << <<0, 2, 0, 4>>,
     <<0, 4, 0, 2>>,
     <<2, 1, 4, 3>>,
     <<4, 3, 2, 1>> >>

\* SolvedGrid with three holes: row 2 and column 3 have one zero each, row 1
\* and column 1 two, so cell (1,1) is forced only after another fill.
CascadeGrid ==
  << <<0, 2, 0, 4>>,
     <<0, 4, 1, 2>>,
     <<2, 1, 4, 3>>,
     <<4, 3, 2, 1>> >>

\* One hole whose row asks for 1 while its column and its subgrid ask for 3.
ConflictGrid ==
  << <<0, 2, 3, 4>>,
     <<1, 4, 1, 2>>,
     <<2, 1, 4, 3>>,
     <<4, 3, 2, 1>> >>

\* One hole in a row and a subgrid whose other cells sum to 4: the value the
\* sum rule asks for there is 6.
RangeGrid ==
  << <<1, 2, 1, 0>>,
     <<3, 4, 1, 2>>,
     <<2, 1, 4, 3>>,
     <<4, 3, 2, 1>> >>

\* One hole in a row and a subgrid whose other cells sum to psize(psize+1)/2:
\* the value the sum rule asks for there is 0.
ZeroSumGrid ==
  << <<0, 3, 3, 4>>,
     <<3, 4, 1, 2>>,
     <<2, 1, 4, 3>>,
     <<4, 3, 2, 1>> >>

\* SolvedGrid with subgrid 0 emptied: rows 1, 2 and columns 1, 2 have two
\* zeros each, subgrid 0 four.
BlockHoledGrid ==
  << <<0, 0, 3, 4>>,
     <<0, 0, 1, 2>>,
     <<2, 1, 4, 3>>,
     <<4, 3, 2, 1>> >>

\* BlockHoledGrid with a repeated 3 in row 1: the two holes of the row would
\* pass for a single hole asking for 4.
BlockHoledBadGrid ==
  << <<0, 0, 3, 3>>,
     <<0, 0, 1, 2>>,
     <<2, 1, 4, 3>>,
     <<4, 3, 2, 1>> >>

\* ZeroSumGrid with a second 3 in column 1: the row, the column and the
\* subgrid of the hole all ask for 0 there.
StuckGrid ==
  << <<0, 3, 3, 4>>,
     <<3, 4, 1, 2>>,
     <<3, 1, 4, 3>>,
     <<4, 3, 2, 1>> >>

Scenarios ==
  {LatinGrid, RowsBadGrid, ColsBadGrid, HoledGrid, BlockHoledGrid,
   BlockHoledBadGrid, CascadeGrid, ConflictGrid, RangeGrid, ZeroSumGrid,
   StuckGrid}

RECURSIVE ApplyEdits(_, _, _)
ApplyEdits(g, cs, f) ==
  IF cs = {} THEN g
  ELSE LET c == CHOOSE x \in cs : TRUE
       IN ApplyEdits([g EXCEPT ![c[1]][c[2]] = f[c]], cs \ {c}, f)

EditSets == { cs \in SUBSET Cells : Cardinality(cs) <= MaxEdits }

EditsOf(b) ==
  UNION { { ApplyEdits(b, cs, f) : f \in [cs -> 0..psize] } : cs \in EditSets }

\* The grids readSudokuPuzzle may hand to checkPuzzle: SolvedGrid with at most
\* MaxEdits cells set to any value of 0..psize, and the scenario grids.
Inputs == EditsOf(SolvedGrid) \cup Scenarios

\* ------------------------------------------------------------------ units

\* Task ids: 0 owns all rows, 1 owns all columns, 2..psize+1 one subgrid each.
RowsTask == 0
ColsTask == 1

\* Variant: the row of the subgrid computed like its column.
start_row_as_col(id) == ((id - 2) % subgrid_size) * subgrid_size + 1

\* Top-left cell of the subgrid of task id (solve_subgrid_worker, check_subgrid).
start_row(id) == ((id - 2) \div subgrid_size) * subgrid_size + 1
start_col(id) == ((id - 2) % subgrid_size) * subgrid_size + 1

\* The cells of a unit in the order its scan reads them: a row left to right,
\* a column top to bottom, a subgrid in row-major order.
RowSeq(row) == [k \in 1..psize |-> <<row, k>>]
ColSeq(col) == [k \in 1..psize |-> <<k, col>>]
SubgridSeq(sr, sc) ==
  [k \in 1..(subgrid_size * subgrid_size) |->
     <<sr + ((k - 1) \div subgrid_size), sc + ((k - 1) % subgrid_size)>>]

\* Variant: the for loops of the rows and columns workers stopping one unit
\* short.
UnitsOfShort(t) == IF t \in {RowsTask, ColsTask} THEN psize - 1 ELSE 1

\* Number of units a task walks through: the for loop of the rows and columns
\* workers, the single call of the subgrid worker.
UnitsOf(t) == IF t \in {RowsTask, ColsTask} THEN psize ELSE 1

\* Unit u of task t.
UnitSeq(t, u) ==
  IF t = RowsTask THEN RowSeq(u)
  ELSE IF t = ColsTask THEN ColSeq(u)
  ELSE SubgridSeq(start_row(t), start_col(t))

\* Variant: the scan that leaves *complete false.
NoZeroNever(g) == FALSE

\* The first scan of checkPuzzle: no cell is 0.
NoZero(g) == \A c \in Cells : g[c[1]][c[2]] # 0

\* ------------------------------------------------------------------ validation

\* The loop of is_row_valid / is_col_valid / is_subgrid_valid over the cells
\* of one unit, from cell k on with the seen-set so far.
\* Variant: the scan without the seen-set test.
RECURSIVE ValidScanNoSeen(_, _, _, _)
ValidScanNoSeen(cells, g, k, seen) ==
  IF k > Len(cells) THEN TRUE
  ELSE LET num == g[cells[k][1]][cells[k][2]]
       IN IF num < 1 \/ num > psize THEN FALSE
          ELSE ValidScanNoSeen(cells, g, k + 1, seen \cup {num})

\* Variant: the scan that passes over empty cells.
RECURSIVE ValidScanSkipZero(_, _, _, _)
ValidScanSkipZero(cells, g, k, seen) ==
  IF k > Len(cells) THEN TRUE
  ELSE LET num == g[cells[k][1]][cells[k][2]]
       IN IF num = 0 THEN ValidScanSkipZero(cells, g, k + 1, seen)
          ELSE IF num < 1 \/ num > psize \/ num \in seen THEN FALSE
          ELSE ValidScanSkipZero(cells, g, k + 1, seen \cup {num})

RECURSIVE ValidScan(_, _, _, _)
ValidScan(cells, g, k, seen) ==
  IF k > Len(cells) THEN TRUE
  ELSE LET num == g[cells[k][1]][cells[k][2]]
       IN IF num < 1 \/ num > psize \/ num \in seen THEN FALSE
          ELSE ValidScan(cells, g, k + 1, seen \cup {num})

is_row_valid(row, g) == ValidScan(RowSeq(row), g, 1, {})
is_col_valid(col, g) == ValidScan(ColSeq(col), g, 1, {})
is_subgrid_valid(sr, sc, g) == ValidScan(SubgridSeq(sr, sc), g, 1, {})

\* What each validation task leaves in its slot of thread_results.
check_rows(g) == IF \A i \in 1..psize : is_row_valid(i, g) THEN 1 ELSE 0
check_cols(g) == IF \A i \in 1..psize : is_col_valid(i, g) THEN 1 ELSE 0
check_subgrid(id, g) ==
  IF is_subgrid_valid(start_row(id), start_col(id), g) THEN 1 ELSE 0

\* ------------------------------------------------------------------ solver tasks

NoCell == <<-1, -1>>

\* Locals of a solver task: where it stands (pc), the unit it is in and the
\* next cell of the scan, the locals of solve_row / solve_col / solve_subgrid,
\* filled_this_thread, and the value of the shared counter it has loaded.
IdleTask ==
  [pc |-> "idle", unit |-> 1, idx |-> 1, zero_count |-> 0, zero_at |-> NoCell,
   sum |-> 0, seen |-> {}, missing_num |-> 0, filled |-> 0, tmp |-> 0]

\* Entry of a solve_* call on unit u.
EnterUnit(st, u) ==
  [st EXCEPT !.pc = "scan", !.unit = u, !.idx = 1, !.zero_count = 0,
             !.zero_at = NoCell, !.sum = 0, !.seen = {}, !.missing_num = 0]

\* Variant: zero_row / zero_col recorded for every cell of the scan.
ScanCellMarksAll(st, c, num) ==
  IF num = 0
  THEN [st EXCEPT !.idx = @ + 1, !.zero_count = @ + 1, !.zero_at = c]
  ELSE IF num > 0 /\ num <= psize
  THEN [st EXCEPT !.idx = @ + 1, !.seen = @ \cup {num}, !.sum = @ + num, !.zero_at = c]
  ELSE [st EXCEPT !.idx = @ + 1, !.zero_at = c]

\* Variant: every zero is taken for the first one (zero_count = 1, not ++).
ScanCellAnyZero(st, c, num) ==
  IF num = 0
  THEN [st EXCEPT !.idx = @ + 1, !.zero_count = 1, !.zero_at = c]
  ELSE IF num > 0 /\ num <= psize
  THEN [st EXCEPT !.idx = @ + 1, !.seen = @ \cup {num}, !.sum = @ + num]
  ELSE [st EXCEPT !.idx = @ + 1]

\* The body of the scan loop for the cell c holding num.
ScanCell(st, c, num) ==
  IF num = 0
  THEN [st EXCEPT !.idx = @ + 1, !.zero_count = @ + 1, !.zero_at = c]
  ELSE IF num > 0 /\ num <= psize
  THEN [st EXCEPT !.idx = @ + 1, !.seen = @ \cup {num}, !.sum = @ + num]
  ELSE [st EXCEPT !.idx = @ + 1]

\* Variants: the guard with missing_num >= 0, and the guard without its
\* upper bound.
FillGuardFromZero(missing, seen) == missing >= 0 /\ missing <= psize /\ missing \notin seen

FillGuardNoUpper(missing, seen) == missing > 0 /\ missing \notin seen

\* Variants: the guard without the seen test, and the guard with
\* missing_num < psize.
FillGuardNoSeen(missing, seen) == missing > 0 /\ missing <= psize

FillGuardBelowMax(missing, seen) == missing > 0 /\ missing < psize /\ missing \notin seen

\* The guard of the fill.
FillGuard(missing, seen) == missing > 0 /\ missing <= psize /\ missing \notin seen

\* After a solve_* call that returned r: the next unit of the worker's loop,
\* or the end of the worker (the counter update when something was filled).
AfterUnit(t, st, r) ==
  LET f == st.filled + r
      s1 == [EnterUnit(st, st.unit) EXCEPT !.filled = f]
  IN IF st.unit < UnitsOf(t) THEN EnterUnit(s1, st.unit + 1)
     ELSE IF f > 0 THEN [s1 EXCEPT !.pc = "lock", !.unit = 1]
     ELSE [s1 EXCEPT !.pc = "done", !.unit = 1]

\* Variant: expected_sum computed as psize * (psize - 1) / 2.
EndOfScanLowSum(t, st) ==
  LET expected_sum == (psize * (psize - 1)) \div 2
      missing == expected_sum - st.sum
  IN IF st.zero_count = 1 /\ FillGuard(missing, st.seen)
     THEN [st EXCEPT !.pc = "write", !.missing_num = missing]
     ELSE AfterUnit(t, st, 0)

\* After the scan loop of a solve_* call: the fill is due (pc = "write"), or
\* the call returns 0.
EndOfScan(t, st) ==
  LET expected_sum == (psize * (psize + 1)) \div 2
      missing == expected_sum - st.sum
  IN IF st.zero_count = 1 /\ FillGuard(missing, st.seen)
     THEN [st EXCEPT !.pc = "write", !.missing_num = missing]
     ELSE AfterUnit(t, st, 0)

\* A task runs on from st until it stands before its next access to shared
\* memory that another task may race with: the read of a cell that was 0 when
\* the pass was launched (pg), a write, or the counter update.  g is the grid.
\* (RunFrom hands Run its argument as a value, computed once.)
RECURSIVE Run(_, _, _, _)
RunFrom(t, sts, g, pg) == CHOOSE r \in { Run(t, s, g, pg) : s \in sts } : TRUE

Run(t, st, g, pg) ==
  IF st.pc # "scan" THEN st
  ELSE IF st.idx > Len(UnitSeq(t, st.unit)) THEN RunFrom(t, {EndOfScan(t, st)}, g, pg)
  ELSE LET c == UnitSeq(t, st.unit)[st.idx]
       IN IF pg[c[1]][c[2]] = 0 THEN st
          ELSE RunFrom(t, {ScanCell(st, c, g[c[1]][c[2]])}, g, pg)

\* ------------------------------------------------------------------ state

VARIABLES
  grid,                  \* int **grid, shared by checkPuzzle and its tasks
  input,                 \* the grid as it was handed to the current call
  pc,                    \* where checkPuzzle stands
  complete,              \* *complete
  valid,                 \* *valid
  zeros_filled_in_pass,  \* the shared counter of the solve loop
  lock,                  \* the mutex: the task that holds it, or -1
  th,                    \* the solver tasks' locals
  pass_grid,             \* the grid as it was when the current pass was launched
  passes,                \* passes of the solve loop launched by the current call
  thread_results,        \* int thread_results[num_threads]
  vt,                    \* validation tasks: "idle", "run" or "done"
  calls,                 \* calls of checkPuzzle so far
  prev,                  \* what the previous call returned, <<>> before any return
  writers,               \* per cell, the tasks that wrote it in the current pass
  ret,                   \* the last solve_* / is_*_valid call run on its own
  sub                    \* the walk of the subgrid tasks over a grid of some size

vars == <<grid, input, pc, complete, valid, zeros_filled_in_pass, lock, th,
          pass_grid, passes, thread_results, vt, calls, prev, writers, ret,
          sub>>

Free == -1
Uninit == -1

NoWriters == [c \in Cells |-> {}]
NoRet == [fn |-> "none", unit |-> 0, value |-> 0, seen_idx |-> {}]
NoSub ==
  [pc |-> "none", psize |-> 0, id |-> 0, start_row |-> 0, start_col |-> 0,
   r_off |-> 0, c_off |-> 0, cells |-> {}, origins |-> {}]

\* main: valid and complete start false; the first call of checkPuzzle.
Init ==
  /\ grid \in Inputs
  /\ input = grid
  /\ pc = "entry"
  /\ complete = FALSE
  /\ valid = FALSE
  /\ zeros_filled_in_pass = 0
  /\ lock = Free
  /\ th = [t \in Tasks |-> IdleTask]
  /\ pass_grid = grid
  /\ passes = 0
  /\ thread_results = [t \in Tasks |-> Uninit]
  /\ vt = [t \in Tasks |-> "idle"]
  /\ calls = 1
  /\ prev = <<>>
  /\ writers = NoWriters
  /\ ret = NoRet
  /\ sub = NoSub

\* ------------------------------------------------------------------ checkPuzzle

\* The first completeness scan, and the branch on it.
FirstScan ==
  /\ pc = "entry"
  /\ complete' = NoZero(grid)
  /\ IF NoZero(grid)
     THEN /\ pc' = "validate"
          /\ valid' = valid
     ELSE /\ pc' = "pass"
          /\ valid' = FALSE
  /\ UNCHANGED <<sub, writers, ret, grid, input, zeros_filled_in_pass, lock, th, pass_grid, passes,
                 thread_results, vt, calls, prev>>

\* One iteration of the do loop up to the joins: the counter is reset and the
\* num_threads solver tasks are created.
LaunchSolvers ==
  /\ pc = "pass"
  /\ zeros_filled_in_pass' = 0
  /\ pass_grid' = grid
  /\ passes' = passes + 1
  /\ th' = [t \in Tasks |-> RunFrom(t, {EnterUnit(IdleTask, 1)}, grid, grid)]
  /\ pc' = "join"
  /\ UNCHANGED <<sub, writers, ret, grid, input, complete, valid, lock, thread_results, vt, calls, prev>>

\* A solver task reads the next cell of its scan.
ReadCell(t) ==
  /\ pc = "join"
  /\ th[t].pc = "scan"
  /\ LET c == UnitSeq(t, th[t].unit)[th[t].idx]
     IN th' = [th EXCEPT ![t] = RunFrom(t, {ScanCell(th[t], c, grid[c[1]][c[2]])},
                                        grid, pass_grid)]
  /\ UNCHANGED <<sub, writers, ret, grid, input, pc, complete, valid, zeros_filled_in_pass, lock,
                 pass_grid, passes, thread_results, vt, calls, prev>>

\* A solver task commits its fill: grid[zero_row][zero_col] = missing_num, and
\* the solve_* call returns 1.
WriteCell(t) ==
  /\ pc = "join"
  /\ th[t].pc = "write"
  /\ LET c == th[t].zero_at
         g2 == [grid EXCEPT ![c[1]][c[2]] = th[t].missing_num]
     IN /\ grid' = g2
        /\ writers' = [writers EXCEPT ![c] = @ \cup {t}]
        /\ th' = [th EXCEPT ![t] = RunFrom(t, {AfterUnit(t, th[t], 1)}, g2, pass_grid)]
  /\ UNCHANGED <<sub, ret, input, pc, complete, valid, zeros_filled_in_pass, lock,
                 pass_grid, passes, thread_results, vt, calls, prev>>

\* Variant: the counter updated without the mutex.
CanLockAlways(t) == TRUE

\* pthread_mutex_lock, and the load of *(p->filled_count).
CanLock(t) == lock = Free

LockCounter(t) ==
  /\ pc = "join"
  /\ th[t].pc = "lock"
  /\ CanLock(t)
  /\ lock' = t
  /\ th' = [th EXCEPT ![t].pc = "store", ![t].tmp = zeros_filled_in_pass]
  /\ UNCHANGED <<sub, writers, ret, grid, input, pc, complete, valid, zeros_filled_in_pass,
                 pass_grid, passes, thread_results, vt, calls, prev>>

\* The store of *(p->filled_count) += filled_this_thread, pthread_mutex_unlock,
\* and the end of the task.
AddUnlock(t) ==
  /\ pc = "join"
  /\ th[t].pc = "store"
  /\ zeros_filled_in_pass' = th[t].tmp + th[t].filled
  /\ lock' = Free
  /\ th' = [th EXCEPT ![t].pc = "done", ![t].tmp = 0]
  /\ UNCHANGED <<sub, writers, ret, grid, input, pc, complete, valid, pass_grid, passes,
                 thread_results, vt, calls, prev>>

\* The join loop stopping one task short.
AllSolversDoneButLast == \A t \in Tasks \ {num_threads - 1} : th[t].pc = "done"

AllSolversDone == \A t \in Tasks : th[t].pc = "done"

\* Variant: checkPuzzle returns after the loop when the grid still has a zero.
JoinSolversNoValidation ==
  /\ pc = "join"
  /\ AllSolversDone
  /\ th' = [t \in Tasks |-> IdleTask]
  /\ writers' = NoWriters
  /\ IF zeros_filled_in_pass > 0
     THEN /\ pc' = "pass"
          /\ complete' = complete
     ELSE /\ pc' = IF NoZero(grid) THEN "validate" ELSE "done"
          /\ complete' = NoZero(grid)
  /\ UNCHANGED <<sub, ret, grid, input, valid, zeros_filled_in_pass, lock, pass_grid, passes,
                 thread_results, vt, calls, prev>>

\* Variant: the loop left after its first pass, whatever the counter.
JoinSolversOnePass ==
  /\ pc = "join"
  /\ AllSolversDone
  /\ th' = [t \in Tasks |-> IdleTask]
  /\ writers' = NoWriters
  /\ pc' = "validate"
  /\ complete' = NoZero(grid)
  /\ UNCHANGED <<sub, ret, grid, input, valid, zeros_filled_in_pass, lock, pass_grid, passes,
                 thread_results, vt, calls, prev>>

\* Variant: no second completeness scan after the loop.
JoinSolversNoRescan ==
  /\ pc = "join"
  /\ AllSolversDone
  /\ th' = [t \in Tasks |-> IdleTask]
  /\ writers' = NoWriters
  /\ pc' = IF zeros_filled_in_pass > 0 THEN "pass" ELSE "validate"
  /\ UNCHANGED <<sub, ret, grid, input, complete, valid, zeros_filled_in_pass, lock, pass_grid,
                 passes, thread_results, vt, calls, prev>>

\* The joins of a pass, the loop condition, and after the loop the second
\* completeness scan.
JoinSolvers ==
  /\ pc = "join"
  /\ AllSolversDone
  /\ th' = [t \in Tasks |-> IdleTask]
  /\ writers' = NoWriters
  /\ IF zeros_filled_in_pass > 0
     THEN /\ pc' = "pass"
          /\ complete' = complete
     ELSE /\ pc' = "validate"
          /\ complete' = NoZero(grid)
  /\ UNCHANGED <<sub, ret, grid, input, valid, zeros_filled_in_pass, lock, pass_grid, passes,
                 thread_results, vt, calls, prev>>

\* The validation tasks are created; thread_results is not initialised.
LaunchValidators ==
  /\ pc = "validate"
  /\ thread_results' = [t \in Tasks |-> Uninit]
  /\ vt' = [t \in Tasks |-> "run"]
  /\ pc' = "vjoin"
  /\ UNCHANGED <<sub, writers, ret, grid, input, complete, valid, zeros_filled_in_pass, lock, th,
                 pass_grid, passes, calls, prev>>

\* A validation task runs: check_rows, check_cols or check_subgrid.
CheckResult(t) ==
  IF t = RowsTask THEN check_rows(grid)
  ELSE IF t = ColsTask THEN check_cols(grid)
  ELSE check_subgrid(t, grid)

Validate(t) ==
  /\ pc = "vjoin"
  /\ vt[t] = "run"
  /\ thread_results' = [thread_results EXCEPT ![t] = CheckResult(t)]
  /\ vt' = [vt EXCEPT ![t] = "done"]
  /\ UNCHANGED <<sub, writers, ret, grid, input, pc, complete, valid, zeros_filled_in_pass, lock, th,
                 pass_grid, passes, calls, prev>>

\* Variant: the join loop of the validation tasks stopping one task short.
AllValidatorsDoneButLast == \A t \in Tasks \ {num_threads - 1} : vt[t] = "done"

AllValidatorsDone == \A t \in Tasks : vt[t] = "done"

\* The loop over thread_results.
AllResultsSet(res) == \A i \in Tasks : res[i] # 0

\* The joins of the validation tasks and the verdict; checkPuzzle returns.
JoinValidators ==
  /\ pc = "vjoin"
  /\ AllValidatorsDone
  /\ valid' = AllResultsSet(thread_results)
  /\ vt' = [t \in Tasks |-> "idle"]
  /\ pc' = "done"
  /\ UNCHANGED <<sub, writers, ret, grid, input, complete, zeros_filled_in_pass, lock, th, pass_grid,
                 passes, thread_results, calls, prev>>

\* The caller runs checkPuzzle again on the grid the call left.
CallAgain ==
  /\ pc = "done"
  /\ calls < MaxCalls
  /\ calls' = calls + 1
  /\ prev' = [complete |-> complete, valid |-> valid, grid |-> grid, input |-> input]
  /\ input' = grid
  /\ pass_grid' = grid
  /\ passes' = 0
  /\ zeros_filled_in_pass' = 0
  /\ thread_results' = [t \in Tasks |-> Uninit]
  /\ pc' = "entry"
  /\ UNCHANGED <<sub, writers, ret, grid, complete, valid, lock, th, vt>>

Next ==
  \/ FirstScan
  \/ LaunchSolvers
  \/ \E t \in Tasks : ReadCell(t)
  \/ \E t \in Tasks : WriteCell(t)
  \/ \E t \in Tasks : LockCounter(t)
  \/ \E t \in Tasks : AddUnlock(t)
  \/ JoinSolvers
  \/ LaunchValidators
  \/ \E t \in Tasks : Validate(t)
  \/ JoinValidators
  \/ CallAgain

Spec == Init /\ [][Next]_vars

\* ------------------------------------------------------------------ fairness

\* Every created task is a thread that the scheduler runs to its end, and
\* checkPuzzle itself keeps running: while a step of the call is possible, one
\* is taken.  The caller need not call again.
TaskStep(t) == ReadCell(t) \/ WriteCell(t) \/ LockCounter(t) \/ AddUnlock(t) \/ Validate(t)

MainStep == FirstScan \/ LaunchSolvers \/ JoinSolvers \/ LaunchValidators \/ JoinValidators

Progress == MainStep \/ \E t \in Tasks : TaskStep(t)

FairSpec == Init /\ [][Next]_vars /\ WF_vars(Progress)

\* ------------------------------------------------------------------ vocabulary of the properties

At(g, c) == g[c[1]][c[2]]

Holes(g) == { c \in Cells : At(g, c) = 0 }

\* The three kinds of unit as sets of cells, from the geometry of the puzzle.
RowCells(r) == { c \in Cells : c[1] = r }
ColCells(k) == { c \in Cells : c[2] = k }
BlockCells(br, bc) ==
  { c \in Cells : (c[1] - 1) \div subgrid_size = br /\ (c[2] - 1) \div subgrid_size = bc }

AllUnits ==
  { RowCells(r) : r \in Idx } \cup { ColCells(k) : k \in Idx }
    \cup { BlockCells(br, bc) : br \in 0..(subgrid_size - 1), bc \in 0..(subgrid_size - 1) }

\* A unit holds every value of 1..psize, once.
IsPermutation(g, u) ==
  \A v \in 1..psize : Cardinality({ c \in u : At(g, c) = v }) = 1

IsValidSudoku(g) == \A u \in AllUnits : IsPermutation(g, u)

InRange(g) == \A c \in Cells : At(g, c) \in 0..psize

Returned == pc = "done"

\* A pass has been launched and all its tasks have ended: the join is due.
AtJoin == pc = "join" /\ \A t \in Tasks : th[t].pc = "done"

\* The step is a grid write of task t.
IsWriteBy(t) == th[t].pc = "write" /\ th'[t] # th[t]

\* What the folding of Run rests on: a write stores a value of 1..psize in a
\* cell that was 0 when the pass was launched, so the cells that were non-zero
\* then keep their value throughout the pass.
WritesHitPassZeros ==
  [][\A t \in Tasks : IsWriteBy(t) =>
       (At(pass_grid, th[t].zero_at) = 0 /\ th[t].missing_num \in 1..psize)]_vars

\* ------------------------------------------------------------------ properties

\* C1: on a grid without a zero, checkPuzzle returns complete = TRUE, and
\* valid = TRUE exactly when every row, every column and every subgrid of the
\* grid is a permutation of 1..psize.
C1_CompleteGridVerdict ==
  (Returned /\ Holes(input) = {}) =>
    (complete /\ (valid <=> IsValidSudoku(input)))

\* A complete grid whose rows alone repeat a value is returned complete and
\* not valid, on the word of the rows task only.
C1_Witness ==
  /\ Returned
  /\ input = RowsBadGrid
  /\ complete /\ ~valid
  /\ thread_results = [t \in Tasks |-> IF t = RowsTask THEN 0 ELSE 1]

Filled(g, c, v) == [g EXCEPT ![c[1]][c[2]] = v]

\* The grids that make g a valid completed puzzle by filling its single hole.
Completions(g) ==
  IF Cardinality(Holes(g)) # 1 THEN {}
  ELSE { h \in { Filled(g, c, v) : c \in Holes(g), v \in 1..psize } : IsValidSudoku(h) }

OneHoleOfValid(g) == Completions(g) # {}

\* C2: when the input is a valid completed puzzle S with exactly one cell set
\* to 0, then whatever the interleaving the grid is the input or S at every
\* moment of the call, and checkPuzzle returns complete, valid, with grid = S.
C2_SingleHoleSolved ==
  OneHoleOfValid(input) =>
    /\ grid = input \/ grid \in Completions(input)
    /\ Returned => (grid \in Completions(input) /\ complete /\ valid)

C2_Witness ==
  /\ Returned
  /\ OneHoleOfValid(input)
  /\ At(input, <<1, 1>>) = 0
  /\ grid = SolvedGrid
  /\ complete /\ valid

\* C3 as stated: with exactly one zero in a consistent grid, the solve loop
\* runs one pass only, and the shared counter is 1 at the end of that pass.
C3_OnePassCounterOne ==
  OneHoleOfValid(input) =>
    /\ passes <= 1
    /\ (AtJoin /\ passes = 1) => zeros_filled_in_pass = 1

\* C3 amended: the hole is filled in the first pass, at whose join the shared
\* counter is between 1 and 3 (one for each of the row task, the column task
\* and the subgrid task that found the cell empty); the loop then runs a
\* second pass, which fills nothing, and stops: two passes exactly.
C3_TwoPassesCounterUpTo3 ==
  OneHoleOfValid(input) =>
    /\ passes <= 2
    /\ (AtJoin /\ passes = 1) =>
         (zeros_filled_in_pass \in 1..3 /\ grid \in Completions(input))
    /\ (AtJoin /\ passes = 2) => zeros_filled_in_pass = 0
    /\ (pc \in {"validate", "vjoin", "done"}) => passes = 2

\* The three tasks that own the hole all filled it in the first pass.
C3_Witness ==
  /\ OneHoleOfValid(input)
  /\ AtJoin
  /\ passes = 1
  /\ zeros_filled_in_pass = 3

\* No row, column or subgrid of g has exactly one zero.
NoSingle(g) == \A u \in AllUnits : Cardinality(u \cap Holes(g)) # 1

\* C4: when the input has a zero and no row, column or subgrid has exactly one
\* zero, the solve loop runs exactly one pass, which ends with the shared
\* counter at 0; no cell changes; checkPuzzle returns complete = FALSE and
\* valid = FALSE.
C4_NoSingleNoProgress ==
  (Holes(input) # {} /\ NoSingle(input)) =>
    /\ grid = input
    /\ passes <= 1
    /\ AtJoin => zeros_filled_in_pass = 0
    /\ (pc \in {"validate", "vjoin", "done"}) => passes = 1
    /\ Returned => (~complete /\ ~valid)

C4_Witness ==
  /\ Returned
  /\ input = HoledGrid
  /\ grid = HoledGrid
  /\ passes = 1
  /\ ~complete /\ ~valid

\* C5: a call on a grid without a zero launches no solver task and changes no
\* cell; two calls in a row on a complete valid grid both return complete and
\* valid, and the grid is still the first call's input.
C5_CompleteGridUntouched ==
  /\ Holes(input) = {} =>
       (passes = 0 /\ grid = input /\ \A t \in Tasks : th[t].pc = "idle")
  /\ (Returned /\ prev # <<>> /\ Holes(prev.input) = {} /\ IsValidSudoku(prev.input)) =>
       /\ prev.complete /\ prev.valid
       /\ complete /\ valid
       /\ grid = prev.input

C5_Witness ==
  /\ Returned
  /\ calls = 2
  /\ prev # <<>>
  /\ prev.input = SolvedGrid
  /\ prev.complete /\ prev.valid /\ complete /\ valid
  /\ grid = SolvedGrid
  /\ passes = 0

\* C6: whenever checkPuzzle returns complete = FALSE it returns valid = FALSE:
\* a grid that keeps a zero has a unit that a validation task rejects.
C6_IncompleteIsInvalid ==
  Returned =>
    /\ valid => complete
    /\ Holes(grid) # {} => \E t \in Tasks : thread_results[t] = 0

\* An unsolvable grid whose units repeat no value is returned neither
\* complete nor valid.
C6_Witness ==
  /\ Returned
  /\ input = HoledGrid
  /\ Holes(grid) # {}
  /\ ~complete /\ ~valid

\* C7: the complete flag that checkPuzzle returns is TRUE exactly when the
\* grid at return has no zero cell.
C7_CompleteIffNoZero == Returned => (complete <=> Holes(grid) = {})

\* The first scan found a zero, the solve loop filled it, and the flag was
\* raised by the scan after the loop.
C7_Witness ==
  /\ Returned
  /\ Holes(input) # {}
  /\ Holes(grid) = {}
  /\ complete

\* C8: every call of checkPuzzle returns under a fair schedule; a pass that
\* ends with the shared counter above 0 leaves strictly fewer zero cells than
\* it started with, and a call runs at most Z + 1 passes, Z the number of zero
\* cells of its input.
C8_SolveLoopTerminates ==
  /\ []((AtJoin /\ zeros_filled_in_pass > 0) =>
          Cardinality(Holes(grid)) < Cardinality(Holes(pass_grid)))
  /\ [](passes <= Cardinality(Holes(input)) + 1)
  /\ (pc = "entry") ~> Returned

\* A call that needed three passes: two that filled cells and the last one.
C8_Witness ==
  /\ Returned
  /\ Cardinality(Holes(input)) >= 2
  /\ passes = 3
  /\ Holes(grid) = {}

\* C9: with every cell of the input in 0..psize, every cell of the grid is in
\* 0..psize in every reachable state.
C9_CellsInRange == InRange(input) => InRange(grid)

\* A task has filled a cell while the sum rule asked another task for a value
\* above psize in the same cell.
C9_Witness ==
  /\ input = RangeGrid
  /\ AtJoin
  /\ At(grid, <<1, 4>>) = 4
  /\ zeros_filled_in_pass = 1

\* C10 as stated: at the moment a solver task's write takes effect, the cell
\* it writes holds 0.
C10_WritesOnlyToZero ==
  [][\A t \in Tasks : IsWriteBy(t) => At(grid, th[t].zero_at) = 0]_vars

\* C10 amended: a solver task only writes a cell that was 0 when the current
\* pass was launched, and it writes a value of 1..psize there; the cell may
\* already have been filled by another task of the same pass, so a write can
\* land on a non-zero cell, but never on one that was non-zero at launch.
C10_WritesOnlyToPassZeros ==
  [][\A t \in Tasks : IsWriteBy(t) =>
       /\ th[t].zero_at \in Holes(pass_grid)
       /\ th[t].missing_num \in 1..psize
       /\ \A c \in Cells \ {th[t].zero_at} : At(grid', c) = At(grid, c)]_vars

\* On a consistent puzzle with one hole, a task stands before its write while
\* the cell already holds the value another task of the pass wrote.
C10_Witness ==
  \E t \in Tasks :
    /\ OneHoleOfValid(input)
    /\ th[t].pc = "write"
    /\ At(grid, th[t].zero_at) # 0
    /\ At(pass_grid, th[t].zero_at) = 0

\* SolvedGrid with the 1s and 3s of rows 1-2, columns 1 and 3 exchanged: the
\* other completed valid puzzle that HoledGrid agrees with.
SwappedGrid ==
  << <<3, 2, 1, 4>>,
     <<1, 4, 3, 2>>,
     <<2, 1, 4, 3>>,
     <<4, 3, 2, 1>> >>

KnownSolutions == { S \in {SolvedGrid, SwappedGrid} : IsValidSudoku(S) }

\* Every non-zero cell of g holds the value S has there.
Agrees(g, S) == \A c \in Cells : At(g, c) # 0 => At(g, c) = At(S, c)

\* C11: when the non-zero cells of the input agree with a completed valid
\* puzzle S, every non-zero cell of the grid holds S's value in every reachable
\* state, and every write a task is about to make, concurrent ones to the same
\* cell included, stores S's value.
C11_WritesAgreeWithSolution ==
  \A S \in KnownSolutions :
    Agrees(input, S) =>
      /\ Agrees(grid, S)
      /\ \A t \in Tasks :
           th[t].pc = "write" => th[t].missing_num = At(S, th[t].zero_at)

\* Two tasks stand before their write to the same cell of a puzzle that agrees
\* with SolvedGrid, and a hole of the input has already been filled.
C11_Witness ==
  \E t1, t2 \in Tasks :
    /\ t1 # t2
    /\ Agrees(input, SolvedGrid)
    /\ th[t1].pc = "write" /\ th[t2].pc = "write"
    /\ th[t1].zero_at = th[t2].zero_at
    /\ Cardinality(Holes(input) \ Holes(grid)) >= 1

\* C12: the orchestrator leaves the join of a pass, where it reads
\* zeros_filled_in_pass, only when all N+2 solver tasks of the pass have ended,
\* and leaves the join of the validation phase, where it reads thread_results,
\* only when all N+2 validation tasks have ended; a pass or the validation
\* phase is launched only while no task of an earlier pass is live.
C12_JoinIsBarrier ==
  [][/\ (pc = "join" /\ pc' # "join") => \A t \in Tasks : th[t].pc = "done"
     /\ (pc = "vjoin" /\ pc' # "vjoin") => \A t \in Tasks : vt[t] = "done"
     /\ (pc # "join" /\ pc' = "join") =>
          \A t \in Tasks : th[t].pc = "idle" /\ vt[t] = "idle"
     /\ (pc # "vjoin" /\ pc' = "vjoin") =>
          \A t \in Tasks : th[t].pc = "idle" /\ vt[t] = "idle"]_vars

\* The validation tasks have all ended after two passes of solver tasks, the
\* first of which filled a cell.
C12_Witness ==
  /\ pc = "vjoin"
  /\ \A t \in Tasks : vt[t] = "done" /\ thread_results[t] # Uninit
  /\ passes = 2
  /\ Holes(input) # Holes(grid)

\* The fixpoint of filling every cell that is the only hole of a unit whose
\* other cells hold distinct values of 1..psize with the value the unit lacks.
Forced(g) ==
  UNION { LET h == CHOOSE c \in u : At(g, c) = 0
              vals == { At(g, c) : c \in u \ {h} }
          IN IF Cardinality(vals) = psize - 1 /\ vals \subseteq 1..psize
             THEN { <<h, CHOOSE v \in 1..psize : v \notin vals>> }
             ELSE {}
          : u \in { w \in AllUnits : Cardinality(w \cap Holes(g)) = 1 } }

RECURSIVE Closure(_)
Closure(g) ==
  IF Forced(g) = {} THEN g
  ELSE LET p == CHOOSE q \in Forced(g) : TRUE
       IN Closure(Filled(g, p[1], p[2]))

Consistent(g) == \E S \in KnownSolutions : Agrees(g, S)

\* Single elimination alone completes the puzzle.
Solvable(g) == Holes(Closure(g)) = {}

\* C13 as stated: on a consistent puzzle that single elimination solves, a
\* cell is written at most once within a pass, so no write of a task lands on
\* a cell that a task of the same pass has already written.
C13_OneWritePerCellPerPass ==
  [][\A t \in Tasks :
       (IsWriteBy(t) /\ Consistent(input) /\ Solvable(input)) =>
         writers[th[t].zero_at] = {}]_vars

\* The tasks whose units hold cell c: the rows task, the columns task and the
\* task of the subgrid around c, the subgrids numbered row by row from 2.
Owners(c) ==
  { RowsTask, ColsTask,
    2 + ((c[1] - 1) \div subgrid_size) * subgrid_size + ((c[2] - 1) \div subgrid_size) }

\* C13 amended: on a consistent puzzle, within a pass a task writes a cell at
\* most once and only the three tasks whose units hold the cell write it, so
\* a cell is written at most three times in a pass; every write after the
\* first stores the value the cell already holds.
C13_OneWritePerOwnerPerPass ==
  [][\A t \in Tasks :
       (IsWriteBy(t) /\ Consistent(input)) =>
         LET c == th[t].zero_at
         IN /\ t \notin writers[c]
            /\ t \in Owners(c)
            /\ writers[c] # {} => At(grid, c) = th[t].missing_num]_vars

\* In one pass on a consistent, solvable puzzle the rows task, the columns
\* task and a subgrid task have each written the same cell.
C13_Witness ==
  \E c \in Cells :
    /\ pc = "join"
    /\ Cardinality(writers[c]) = 3
    /\ writers[c] = Owners(c)
    /\ Consistent(input) /\ Solvable(input)

\* The fill counts the solver tasks of ts hold, added up.
RECURSIVE SumFilled(_)
SumFilled(ts) ==
  IF ts = {} THEN 0
  ELSE LET t == CHOOSE x \in ts : TRUE
       IN th[t].filled + SumFilled(ts \ {t})

\* C14: zeros_filled_in_pass changes only by the update of a task that holds
\* the mutex, after which the task has ended, or while no solver task is live
\* (the reset); at most one task is between its load and its store of the
\* counter; so when all tasks of a pass have ended the counter is the sum of
\* the fill counts the tasks returned.
C14_NoLostUpdate ==
  [][/\ Cardinality({ t \in Tasks : th[t].pc = "store" }) <= 1
     /\ AtJoin => zeros_filled_in_pass = SumFilled(Tasks)
     /\ zeros_filled_in_pass' # zeros_filled_in_pass =>
          \/ \A t \in Tasks : th[t].pc \in {"idle", "done"}
          \/ \E t \in Tasks :
               /\ th[t].pc = "store" /\ lock = t /\ th'[t].pc = "done"
               /\ zeros_filled_in_pass' = zeros_filled_in_pass + th[t].filled
               /\ \A o \in Tasks \ {t} : th'[o] = th[o]]_vars

\* One task is between its load and its store of the counter, a second one
\* waits for the mutex, and a third has already added its count.
C14_Witness ==
  \E t1, t2 \in Tasks :
    /\ th[t1].pc = "store"
    /\ th[t2].pc = "lock"
    /\ zeros_filled_in_pass = 1
    /\ lock = t1

\* C15: when all tasks of a pass have ended, zeros_filled_in_pass is the
\* number of cells that were 0 when the pass was launched and are non-zero now.
C15_CounterCountsFilledCells ==
  AtJoin => zeros_filled_in_pass = Cardinality(Holes(pass_grid) \ Holes(grid))

\* C16: for an input whose non-zero cells agree with a completed valid puzzle,
\* whatever the interleaving of the solver tasks, checkPuzzle returns with the
\* grid equal to the closure of the input under the fill of single holes,
\* complete telling whether that closure has no hole and valid whether it is
\* a valid completed puzzle.
C16_ResultIsClosure ==
  (Returned /\ Consistent(input)) =>
    /\ grid = Closure(input)
    /\ complete <=> Holes(Closure(input)) = {}
    /\ valid <=> IsValidSudoku(Closure(input))

\* checkPuzzle has returned on the puzzle whose holes single elimination
\* fills one after the other, with every hole filled.
C16_Witness ==
  /\ Returned
  /\ input = CascadeGrid
  /\ Holes(input) # {}
  /\ grid = SolvedGrid
  /\ complete /\ valid

\* ------------------------------------------------- the unit functions on their own

\* How far below 0 and above psize the cells of a probed unit range.
UnitSlack == 1

UnitValues == (0 - UnitSlack)..(psize + UnitSlack)

\* One unit of each kind takes every content over UnitValues; the cells
\* around it are those of SolvedGrid.
ProbeUnits == { RowCells(2), ColCells(3), BlockCells(1, 0) }

ProbeGrid(u, f) ==
  [r \in Idx |-> [k \in Idx |->
     IF <<r, k>> \in u THEN f[<<r, k>>] ELSE SolvedGrid[r][k]]]

\* The scan loop of a solve_* call run to its end, no other task around.
RECURSIVE ScanAll(_, _, _)
ScanAll(cells, st, g) ==
  IF st.idx > Len(cells) THEN st
  ELSE LET c == cells[st.idx]
       IN ScanAll(cells, ScanCell(st, c, g[c[1]][c[2]]), g)

\* A whole solve_* call of task t on its unit u: the grid it leaves and the
\* value it returns.
SolveUnit(t, u, g) ==
  LET st == EndOfScan(t, ScanAll(UnitSeq(t, u), EnterUnit(IdleTask, u), g))
      c == st.zero_at
  IN IF st.pc = "write"
     THEN [grid |-> [g EXCEPT ![c[1]][c[2]] = st.missing_num], value |-> 1]
     ELSE [grid |-> g, value |-> 0]

solve_row(row, g) == SolveUnit(RowsTask, row, g)
solve_col(col, g) == SolveUnit(ColsTask, col, g)
solve_subgrid(id, g) == SolveUnit(id, 1, g)

\* The indexes at which an is_*_valid call reads or writes its array seen:
\* 0..psize in the loop that clears it, then seen[num] for each cell the scan
\* reaches whose num passed the two range tests before it.
RECURSIVE ScanIndexes(_, _, _, _)
ScanIndexes(cells, g, k, seen) ==
  IF k > Len(cells) THEN {}
  ELSE LET num == g[cells[k][1]][cells[k][2]]
       IN IF num < 1 \/ num > psize THEN {}
          ELSE IF num \in seen THEN {num}
          ELSE {num} \cup ScanIndexes(cells, g, k + 1, seen \cup {num})

SeenIndexes(cells, g) == (0..psize) \cup ScanIndexes(cells, g, 1, {})

UnitInit ==
  /\ \E u \in ProbeUnits : \E f \in [u -> UnitValues] : grid = ProbeGrid(u, f)
  /\ input = grid
  /\ pc = "unit"
  /\ complete = FALSE
  /\ valid = FALSE
  /\ zeros_filled_in_pass = 0
  /\ lock = Free
  /\ th = [t \in Tasks |-> IdleTask]
  /\ pass_grid = grid
  /\ passes = 0
  /\ thread_results = [t \in Tasks |-> Uninit]
  /\ vt = [t \in Tasks |-> "idle"]
  /\ calls = 1
  /\ prev = <<>>
  /\ writers = NoWriters
  /\ ret = NoRet
  /\ sub = NoSub

\* One call returns: the grid it leaves and what it returned.
Return(fn, u, g, v, idx) ==
  /\ grid' = g
  /\ ret' = [fn |-> fn, unit |-> u, value |-> v, seen_idx |-> idx]
  /\ pc' = "unit_done"
  /\ UNCHANGED <<sub, writers, input, complete, valid, zeros_filled_in_pass, lock, th,
                 pass_grid, passes, thread_results, vt, calls, prev>>

CallSolveRow ==
  /\ pc = "unit"
  /\ \E row \in Idx :
       LET r == solve_row(row, grid) IN Return("solve_row", row, r.grid, r.value, {})

CallSolveCol ==
  /\ pc = "unit"
  /\ \E col \in Idx :
       LET r == solve_col(col, grid) IN Return("solve_col", col, r.grid, r.value, {})

CallSolveSubgrid ==
  /\ pc = "unit"
  /\ \E id \in Tasks \ {RowsTask, ColsTask} :
       LET r == solve_subgrid(id, grid)
       IN Return("solve_subgrid", id, r.grid, r.value, {})

CallIsRowValid ==
  /\ pc = "unit"
  /\ \E row \in Idx :
       Return("is_row_valid", row, grid, is_row_valid(row, grid),
              SeenIndexes(RowSeq(row), grid))

CallIsColValid ==
  /\ pc = "unit"
  /\ \E col \in Idx :
       Return("is_col_valid", col, grid, is_col_valid(col, grid),
              SeenIndexes(ColSeq(col), grid))

CallIsSubgridValid ==
  /\ pc = "unit"
  /\ \E id \in Tasks \ {RowsTask, ColsTask} :
       Return("is_subgrid_valid", id, grid,
              is_subgrid_valid(start_row(id), start_col(id), grid),
              SeenIndexes(SubgridSeq(start_row(id), start_col(id)), grid))

UnitNext ==
  \/ CallSolveRow
  \/ CallSolveCol
  \/ CallSolveSubgrid
  \/ CallIsRowValid
  \/ CallIsColValid
  \/ CallIsSubgridValid

UnitSpec == UnitInit /\ [][UnitNext]_vars

\* The cells of the unit the call that returned was made on.
CalledUnit ==
  IF ret.fn \in {"solve_row", "is_row_valid"} THEN RowCells(ret.unit)
  ELSE IF ret.fn \in {"solve_col", "is_col_valid"} THEN ColCells(ret.unit)
  ELSE BlockCells((ret.unit - 2) \div subgrid_size, (ret.unit - 2) % subgrid_size)

SolveReturned == pc = "unit_done" /\ ret.fn \in {"solve_row", "solve_col", "solve_subgrid"}

ValidReturned ==
  pc = "unit_done" /\ ret.fn \in {"is_row_valid", "is_col_valid", "is_subgrid_valid"}

\* The values of the cells cs of g, added up.
RECURSIVE SumCells(_, _)
SumCells(g, cs) ==
  IF cs = {} THEN 0
  ELSE LET c == CHOOSE x \in cs : TRUE
       IN At(g, c) + SumCells(g, cs \ {c})

UnitInRange(g, u) == \A c \in u : At(g, c) \in 0..psize

\* The value the sum rule asks for in unit u of g.
SumRule(g, u) == (psize * (psize + 1)) \div 2 - SumCells(g, u)

\* C17: a solve_* call on a unit with values in 0..psize writes iff the unit
\* has exactly one zero and m = psize(psize+1)/2 - (sum of the unit) is in
\* 1..psize and not in the unit; it then writes m into that zero and returns
\* 1; otherwise it returns 0 and leaves the grid as it was.
C17_SolveUnitContract ==
  (SolveReturned /\ UnitInRange(input, CalledUnit)) =>
    LET u == CalledUnit
        m == SumRule(input, u)
    IN IF /\ Cardinality(u \cap Holes(input)) = 1
          /\ m \in 1..psize
          /\ \A c \in u : At(input, c) # m
       THEN /\ ret.value = 1
            /\ grid = Filled(input, CHOOSE c \in u : At(input, c) = 0, m)
       ELSE /\ ret.value = 0
            /\ grid = input

\* solve_col has filled the one hole of a column whose other cells are
\* distinct.
C17_Witness ==
  /\ SolveReturned
  /\ ret.fn = "solve_col"
  /\ ret.value = 1
  /\ Cardinality(CalledUnit \cap Holes(input)) = 1
  /\ IsPermutation(grid, CalledUnit)
  /\ grid # input

\* Some value of 1..psize is in more than one cell of unit u of g.
HasRepeat(g, u) ==
  \E c, d \in u : c # d /\ At(g, c) # 0 /\ At(g, c) = At(g, d)

\* One value is in exactly two cells of unit u of g, the others in at most one.
OnePairOnly(g, u) ==
  \E c, d \in u :
    /\ c # d /\ At(g, c) # 0 /\ At(g, c) = At(g, d)
    /\ \A x, y \in u : (x # y /\ At(g, x) # 0 /\ At(g, x) = At(g, y)) => {x, y} = {c, d}

\* C18 as stated: a solve_* call on a unit with values in 0..psize, exactly
\* one zero and a repeated non-zero value commits no fill; any fill a call
\* commits leaves the unit a permutation of 1..psize.
C18_NoFillOnRepeat ==
  (SolveReturned /\ UnitInRange(input, CalledUnit)) =>
    /\ (Cardinality(CalledUnit \cap Holes(input)) = 1 /\ HasRepeat(input, CalledUnit)) =>
         (ret.value = 0 /\ grid = input)
    /\ ret.value = 1 => IsPermutation(grid, CalledUnit)

\* C18 amended: the value a solve_* call fills in is in 1..psize and in no
\* cell of the unit, so the fill adds no repeat, and a unit with one zero in
\* which one value is in exactly two cells and the others in at most one gets
\* no fill; a unit with heavier repeats can get one.
C18_FillAddsNoRepeat ==
  (SolveReturned /\ UnitInRange(input, CalledUnit)) =>
    /\ ret.value = 1 =>
         \E h \in CalledUnit :
           /\ CalledUnit \cap Holes(input) = {h}
           /\ At(grid, h) \in 1..psize
           /\ \A c \in CalledUnit \ {h} : At(input, c) # At(grid, h)
           /\ grid = Filled(input, h, At(grid, h))
    /\ (Cardinality(CalledUnit \cap Holes(input)) = 1 /\ OnePairOnly(input, CalledUnit)) =>
         (ret.value = 0 /\ grid = input)

\* solve_subgrid has filled the hole of a subgrid whose three other cells hold
\* the same value.
C18_Witness ==
  /\ SolveReturned
  /\ ret.fn = "solve_subgrid"
  /\ ret.value = 1
  /\ UnitInRange(input, CalledUnit)
  /\ Cardinality({ At(input, c) : c \in CalledUnit }) = 2
  /\ ~IsPermutation(grid, CalledUnit)

\* The solve loop has been left: its last pass ended with the counter at 0.
Converged ==
  pc \in {"validate", "vjoin", "done"} /\ passes >= 1 /\ zeros_filled_in_pass = 0

\* C19 as stated: once the solve loop has converged, no row, column or
\* subgrid of the grid has exactly one zero cell, for every input with values
\* in 0..psize.
C19_ConvergedNoSingleHole ==
  (Converged /\ InRange(input)) => NoSingle(grid)

\* Unit u of g has exactly one zero, and the value the sum rule asks for is in
\* 1..psize and in no cell of the unit.
Fillable(g, u) ==
  /\ Cardinality(u \cap Holes(g)) = 1
  /\ SumRule(g, u) \in 1..psize
  /\ \A c \in u : At(g, c) # SumRule(g, u)

\* C19 amended: once the solve loop has converged, no unit of the grid has
\* exactly one zero whose sum-rule value passes the fill guard; a unit with
\* exactly one zero can remain when the value asked for is out of 1..psize or
\* already in the unit. For inputs that agree with a valid completed puzzle no
\* unit with exactly one zero remains.
C19_ConvergedNoFillable ==
  (Converged /\ InRange(input)) =>
    /\ \A u \in AllUnits : ~Fillable(grid, u)
    /\ Consistent(input) => NoSingle(grid)

\* The loop has converged on StuckGrid, whose hole is still the one zero of
\* its row, its column and its subgrid.
C19_Witness ==
  /\ Converged
  /\ input = StuckGrid
  /\ grid = StuckGrid
  /\ Cardinality({ u \in AllUnits : Cardinality(u \cap Holes(grid)) = 1 }) = 3

\* C20: is_row_valid, is_col_valid and is_subgrid_valid return true iff the
\* cells of the unit are a permutation of 1..psize; with a value below 1 or
\* above psize in the unit they return false; they index seen within
\* 0..psize only, and they leave the grid as it was.
C20_ValidatorContract ==
  ValidReturned =>
    /\ ret.value <=> IsPermutation(input, CalledUnit)
    /\ (\E c \in CalledUnit : At(input, c) \notin 1..psize) => ret.value = FALSE
    /\ ret.seen_idx \subseteq 0..psize
    /\ grid = input

\* is_subgrid_valid has returned false on a subgrid that holds a negative
\* value and a value above psize, having indexed seen only to clear it.
C20_Witness ==
  /\ ValidReturned
  /\ ret.fn = "is_subgrid_valid"
  /\ ret.value = FALSE
  /\ \E c, d \in CalledUnit : At(input, c) < 0 /\ At(input, d) > psize
  /\ ret.seen_idx = 0..psize

\* The cells task t is to go through, in order, from the geometry of the
\* puzzle: all cells row by row for task 0, column by column for task 1, and
\* the cells of subgrid t - 2 for a task t of 2..psize+1, the subgrids
\* numbered row by row.
TaskOrder(t) ==
  IF t = 0 THEN [k \in 1..(psize * psize) |->
                   <<((k - 1) \div psize) + 1, ((k - 1) % psize) + 1>>]
  ELSE IF t = 1 THEN [k \in 1..(psize * psize) |->
                        <<((k - 1) % psize) + 1, ((k - 1) \div psize) + 1>>]
  ELSE [k \in 1..psize |->
          <<((t - 2) \div subgrid_size) * subgrid_size + ((k - 1) \div subgrid_size) + 1,
            ((t - 2) % subgrid_size) * subgrid_size + ((k - 1) % subgrid_size) + 1>>]

\* Where solver task state st of task t stands in TaskOrder(t): before the
\* cell it is about to read, after the unit it is about to write in, or past
\* the end once its scans are over.
Stand(t, st) ==
  IF st.pc = "scan" THEN (st.unit - 1) * psize + st.idx
  ELSE IF st.pc = "write" THEN st.unit * psize + 1
  ELSE Len(TaskOrder(t)) + 1

\* No cell of TaskOrder(t) from position a to position b - 1 was 0 when the
\* pass was launched.
NoPassHole(t, pg, a, b) ==
  \A k \in a..(b - 1) : k \in DOMAIN TaskOrder(t) => At(pg, TaskOrder(t)[k]) # 0

\* What validation task t is to report: all rows, all columns, or subgrid
\* t - 2 are permutations of 1..psize.
TaskUnits(t) ==
  IF t = 0 THEN { RowCells(r) : r \in Idx }
  ELSE IF t = 1 THEN { ColCells(k) : k \in Idx }
  ELSE { BlockCells((t - 2) \div subgrid_size, (t - 2) % subgrid_size) }

\* C21: a solve pass and the validation phase each run the psize + 2 tasks
\* 0..psize+1. Solver task 0 goes through rows 1..psize in ascending order,
\* solver task 1 through columns 1..psize, a solver task t >= 2 through
\* subgrid t - 2 only: a task stands at a cell of its order that was 0 at
\* launch, writes in the unit it has scanned, only moves forward, and passes
\* over no cell that was 0 at launch. Validation task 0 reports on all rows,
\* task 1 on all columns, task t >= 2 on subgrid t - 2.
C21_TaskLayout ==
  [][/\ DOMAIN th = 0..(psize + 1) /\ DOMAIN vt = 0..(psize + 1)
     /\ pc = "join" => \A t \in DOMAIN th : th[t].pc # "idle"
     /\ pc = "vjoin" => \A t \in DOMAIN vt :
          /\ vt[t] # "idle"
          /\ vt[t] = "done" =>
               (thread_results[t] = 1 <=> \A u \in TaskUnits(t) : IsPermutation(grid, u))
     /\ pc = "join" => \A t \in DOMAIN th :
          /\ th[t].pc = "scan" =>
               /\ Stand(t, th[t]) \in DOMAIN TaskOrder(t)
               /\ UnitSeq(t, th[t].unit)[th[t].idx] = TaskOrder(t)[Stand(t, th[t])]
               /\ At(pass_grid, TaskOrder(t)[Stand(t, th[t])]) = 0
          /\ th[t].pc = "write" =>
               \E k \in ((th[t].unit - 1) * psize + 1)..(th[t].unit * psize) :
                 k \in DOMAIN TaskOrder(t) /\ TaskOrder(t)[k] = th[t].zero_at
     /\ (pc = "pass" /\ pc' = "join") => \A t \in DOMAIN th :
          NoPassHole(t, pass_grid', 1, Stand(t, th'[t]))
     /\ (pc = "join" /\ pc' = "join") => \A t \in DOMAIN th :
          /\ Stand(t, th'[t]) >= Stand(t, th[t])
          /\ (th[t].pc = "scan" /\ th'[t] # th[t]) => Stand(t, th'[t]) > Stand(t, th[t])
          /\ NoPassHole(t, pass_grid, Stand(t, th[t]) + 1, Stand(t, th'[t]))]_vars

\* The rows task and the columns task both stand in their last unit, before
\* the read of the same cell, which the task of the last subgrid is about to
\* write.
C21_Witness ==
  /\ pc = "join"
  /\ th[0].pc = "scan" /\ th[0].unit = psize
  /\ th[1].pc = "scan" /\ th[1].unit = psize
  /\ th[psize + 1].pc = "write"
  /\ th[psize + 1].zero_at = <<psize, psize>>

\* ------------------------------------------- the subgrid tasks on grids of any size

\* The puzzle sizes walked are the squares of 1..MaxRoot.
MaxRoot == 4

Squares == { r * r : r \in 1..MaxRoot }

\* (int)sqrt(n).
Sqrt(n) == CHOOSE r \in 0..n : r * r <= n /\ (r + 1) * (r + 1) > n

\* Variant: the row of the subgrid computed like its column.
subgrid_start_row_as_col(id, n) == ((id - 2) % Sqrt(n)) * Sqrt(n) + 1

\* start_row and start_col of the subgrid of task id in a puzzle of size n.
subgrid_start_row(id, n) == ((id - 2) \div Sqrt(n)) * Sqrt(n) + 1
subgrid_start_col(id, n) == ((id - 2) % Sqrt(n)) * Sqrt(n) + 1

\* The subgrid tasks 2..n+1 of a puzzle of size n, one after the other, each
\* going through the cells its two nested loops index.
SubInit ==
  /\ \E n \in Squares : sub = [NoSub EXCEPT !.pc = "enter", !.psize = n, !.id = 2]
  /\ grid = SolvedGrid
  /\ input = grid
  /\ pc = "subgrids"
  /\ complete = FALSE
  /\ valid = FALSE
  /\ zeros_filled_in_pass = 0
  /\ lock = Free
  /\ th = [t \in Tasks |-> IdleTask]
  /\ pass_grid = grid
  /\ passes = 0
  /\ thread_results = [t \in Tasks |-> Uninit]
  /\ vt = [t \in Tasks |-> "idle"]
  /\ calls = 1
  /\ prev = <<>>
  /\ writers = NoWriters
  /\ ret = NoRet

SubFrame ==
  UNCHANGED <<grid, input, pc, complete, valid, zeros_filled_in_pass, lock, th,
              pass_grid, passes, thread_results, vt, calls, prev, writers, ret>>

\* The worker of task sub.id computes the origin of its subgrid.
SubgridEnter ==
  /\ sub.pc = "enter"
  /\ sub' = [sub EXCEPT
       !.pc = "cell",
       !.start_row = subgrid_start_row(sub.id, sub.psize),
       !.start_col = subgrid_start_col(sub.id, sub.psize),
       !.r_off = 0, !.c_off = 0,
       !.origins = @ \cup { <<sub.id, <<subgrid_start_row(sub.id, sub.psize),
                                       subgrid_start_col(sub.id, sub.psize)>>>> }]
  /\ SubFrame

\* One turn of the inner loop: grid[start_row + r_off][start_col + c_off].
SubgridCell ==
  /\ sub.pc = "cell"
  /\ LET size == Sqrt(sub.psize)
         c == <<sub.start_row + sub.r_off, sub.start_col + sub.c_off>>
         last_col == sub.c_off + 1 = size
         last == last_col /\ sub.r_off + 1 = size
     IN sub' = [sub EXCEPT
          !.cells = @ \cup { <<sub.id, c>> },
          !.c_off = IF last_col THEN 0 ELSE @ + 1,
          !.r_off = IF last_col THEN @ + 1 ELSE @,
          !.pc = IF last THEN "next" ELSE "cell"]
  /\ SubFrame

\* The launch loop goes on to the next task id, up to num_threads - 1.
SubgridNext ==
  /\ sub.pc = "next"
  /\ sub' = [sub EXCEPT !.id = @ + 1,
                        !.pc = IF sub.id + 1 < sub.psize + 2 THEN "enter" ELSE "done"]
  /\ SubFrame

SubNext == SubgridEnter \/ SubgridCell \/ SubgridNext

SubSpec == SubInit /\ [][SubNext]_vars

\* The cells task t has gone through.
CellsOf(t) == { p[2] : p \in { q \in sub.cells : q[1] = t } }

\* The root of a perfect square n.
RootOf(n) == CHOOSE r \in 1..n : r * r = n

\* The top-left cells of the tiling of an n x n grid by RootOf(n)-squares.
TileOrigins(n) ==
  { <<i * RootOf(n) + 1, j * RootOf(n) + 1>> :
      i \in 0..(RootOf(n) - 1), j \in 0..(RootOf(n) - 1) }

\* C22: for a puzzle size n that is a perfect square, the cells the subgrid
\* tasks 2..n+1 go through stay within rows and columns 1..n and no cell is
\* gone through by two tasks; once all tasks are through, every cell of the
\* grid belongs to exactly one task, each task has the full tile at its
\* origin, and the origins of the n tasks are the n origins of the tiling,
\* one task each.
C22_SubgridsTileGrid ==
  sub.pc # "none" =>
    LET n == sub.psize
        r == RootOf(n)
    IN /\ \A p \in sub.cells : p[2] \in (1..n) \X (1..n)
       /\ Cardinality({ p[2] : p \in sub.cells }) = Cardinality(sub.cells)
       /\ sub.pc = "done" =>
            /\ { p[2] : p \in sub.cells } = (1..n) \X (1..n)
            /\ { o[1] : o \in sub.origins } = 2..(n + 1)
            /\ { o[2] : o \in sub.origins } = TileOrigins(n)
            /\ Cardinality(sub.origins) = n
            /\ \A o \in sub.origins :
                 CellsOf(o[1]) = { <<o[2][1] + i, o[2][2] + j>> :
                                     i \in 0..(r - 1), j \in 0..(r - 1) }

\* The nine subgrid tasks of a 9 x 9 puzzle are through.
C22_Witness ==
  /\ sub.pc = "done"
  /\ sub.psize = 9
  /\ sub.id = 11
  /\ Cardinality(sub.cells) = 81

\* C23: in the validation phase slot i of thread_results changes only in a
\* step of validation task i, which leaves the other slots alone and stores
\* what its own units of the grid give, whatever the other slots hold; when
\* the orchestrator leaves the join and reads the slots, every task has ended
\* and every slot of 0..psize+1 has been written.
C23_ResultSlots ==
  [][/\ (pc = "vjoin" /\ pc' = "vjoin") =>
          \A i \in Tasks :
            thread_results'[i] # thread_results[i] =>
              /\ vt[i] = "run" /\ vt'[i] = "done"
              /\ \A j \in Tasks \ {i} :
                   thread_results'[j] = thread_results[j] /\ vt'[j] = vt[j]
              /\ thread_results'[i] =
                   IF \A u \in TaskUnits(i) : IsPermutation(grid, u) THEN 1 ELSE 0
     /\ (pc = "vjoin" /\ pc' # "vjoin") =>
          /\ DOMAIN thread_results = 0..(psize + 1)
          /\ \A i \in Tasks : vt[i] = "done" /\ thread_results[i] \in {0, 1}
          /\ valid' = (\A i \in Tasks : thread_results[i] # 0)]_vars

\* The rows task has stored 0 and a subgrid task 1 while the slot of the
\* columns task is still unwritten.
C23_Witness ==
  /\ pc = "vjoin"
  /\ thread_results[0] = 0
  /\ thread_results[1] = Uninit
  /\ \E t \in Tasks \ {0, 1} : thread_results[t] = 1
  /\ \E t \in Tasks \ {0, 1} : thread_results[t] = Uninit

\* The moves of checkPuzzle from one phase to the next: from the first scan
\* to the solve loop or straight to the validation, from the join of a pass to
\* another pass or to the validation, from the validation to its join and from
\* there to the return; a new call starts from a return.
PhaseMoves ==
  { <<"entry", "pass">>, <<"entry", "validate">>, <<"pass", "join">>,
    <<"join", "pass">>, <<"join", "validate">>, <<"validate", "vjoin">>,
    <<"vjoin", "done">>, <<"done", "entry">> }

\* C24: every call of checkPuzzle, whether or not the grid is complete, runs
\* the validation phase once, between the last join of the solve loop (or the
\* first scan) and the return: the validation tasks are launched while no
\* solver task is live, no grid cell changes from their launch to the return,
\* and at the return every validation task has stored its outcome and valid
\* is the conjunction of the psize + 2 outcomes.
C24_OneValidationPhase ==
  [][/\ pc' # pc => <<pc, pc'>> \in PhaseMoves
     /\ (pc = "validate" /\ pc' = "vjoin") =>
          /\ \A t \in Tasks : th[t].pc = "idle" /\ vt[t] = "idle" /\ vt'[t] = "run"
          /\ thread_results' = [t \in Tasks |-> Uninit]
     /\ pc \in {"validate", "vjoin"} => grid' = grid
     /\ (pc = "vjoin" /\ pc' = "done") =>
          /\ \A t \in Tasks :
               thread_results[t] = IF \A u \in TaskUnits(t) : IsPermutation(grid, u) THEN 1 ELSE 0
          /\ valid' = (\A t \in Tasks : thread_results[t] = 1)
          /\ complete' = complete]_vars

\* checkPuzzle has returned incomplete after a solve loop that left holes,
\* with the outcomes of all validation tasks stored, not all of them 0.
C24_Witness ==
  /\ Returned
  /\ ~complete /\ ~valid
  /\ passes >= 1
  /\ Holes(grid) # {}
  /\ \A t \in Tasks : thread_results[t] \in {0, 1}
  /\ \E t \in Tasks : thread_results[t] = 1

\* C25: every cell that is non-zero in the input of a call holds the same
\* value in every reachable state of the call, its return included; a solver
\* task only writes a cell that was 0 in the input; and no step takes a cell
\* from a non-zero value to 0.
C25_GivensUntouched ==
  /\ [](/\ \A c \in Cells : At(input, c) # 0 => At(grid, c) = At(input, c)
        /\ \A t \in Tasks : th[t].pc = "write" => At(input, th[t].zero_at) = 0)
  /\ [][\A c \in Cells : At(grid, c) # 0 => At(grid', c) # 0]_vars

\* checkPuzzle has returned on the puzzle whose hole the row and the column
\* fill differently: the hole is filled, the fifteen other cells are as given.
C25_Witness ==
  /\ Returned
  /\ input = ConflictGrid
  /\ Cardinality(Holes(input)) = 1
  /\ Holes(grid) = {}
  /\ Cardinality({ c \in Cells : At(grid, c) = At(input, c) }) = psize * psize - 1

\* One interleaving of a pass: the tasks run one after the other in the order
\* of their ids, the rows task its rows, the columns task its columns, then
\* each subgrid task its subgrid.
PassCalls ==
  [k \in 1..(3 * psize) |->
     IF k <= psize THEN <<RowsTask, k>>
     ELSE IF k <= 2 * psize THEN <<ColsTask, k - psize>>
     ELSE <<k - 2 * psize + 1, 1>>]

\* (SeqPassFrom and SeqSolveFrom hand on their argument as a value, computed
\* once.)
RECURSIVE SeqPass(_, _, _)
SeqPassFrom(rs, k, filled) ==
  CHOOSE p \in { SeqPass(r.grid, k, filled + r.value) : r \in rs } : TRUE

SeqPass(g, k, filled) ==
  IF k > Len(PassCalls) THEN [grid |-> g, filled |-> filled]
  ELSE SeqPassFrom({SolveUnit(PassCalls[k][1], PassCalls[k][2], g)}, k + 1, filled)

\* The do-while loop under that interleaving.
RECURSIVE SeqSolve(_)
SeqSolveFrom(ps) ==
  CHOOSE g \in { IF p.filled > 0 THEN SeqSolve(p.grid) ELSE p.grid : p \in ps } : TRUE

SeqSolve(g) == SeqSolveFrom({SeqPass(g, 1, 0)})

\* The grid checkPuzzle leaves under that interleaving.
SeqGrid(g) == IF NoZero(g) THEN g ELSE SeqSolve(g)

\* C26 as stated: for every input with values in 0..psize the grid left and
\* the returned complete and valid are the same under every interleaving of
\* the solver tasks, hence those of the interleaving that runs the tasks one
\* after the other.
C26_ResultSameUnderAllInterleavings ==
  (Returned /\ InRange(input)) =>
    /\ grid = SeqGrid(input)
    /\ complete = (Holes(SeqGrid(input)) = {})
    /\ valid = IsValidSudoku(SeqGrid(input))

\* C26 amended: for every input with values in 0..psize the returned valid is
\* the same under every interleaving, and for an input that agrees with a
\* completed valid puzzle so are the grid left and complete; the grid left on
\* an input with contradicting givens depends on the interleaving.
C26_ValidSameUnderAllInterleavings ==
  (Returned /\ InRange(input)) =>
    /\ valid = IsValidSudoku(SeqGrid(input))
    /\ Consistent(input) =>
         /\ grid = SeqGrid(input)
         /\ complete = (Holes(SeqGrid(input)) = {})

\* checkPuzzle has returned with the value the column asked for in the hole
\* that the tasks run one after the other fill with the value of the row.
C26_Witness ==
  /\ Returned
  /\ input = ConflictGrid
  /\ At(grid, <<1, 1>>) = 3
  /\ At(SeqGrid(input), <<1, 1>>) = 1
  /\ complete /\ ~valid

\* C27: a call of checkPuzzle on the grid a first call left changes no cell,
\* in any of its states, and returns the complete and valid the first call
\* returned.
C27_SecondCallChangesNothing ==
  calls >= 2 =>
    /\ input = prev.grid
    /\ grid = prev.grid
    /\ Returned => (complete = prev.complete /\ valid = prev.valid)

\* A second call has returned on a grid the first call left with holes, after
\* a solve pass of its own.
C27_Witness ==
  /\ calls = 2
  /\ Returned
  /\ passes >= 1
  /\ Holes(grid) # {}
  /\ prev.grid = grid
  /\ ~prev.complete

====
